---- MODULE Spec2Model ----
(***************************************************************************)
(* FundVerse backend canister (src/FundVerse_backend/src/lib.rs).          *)
(*                                                                         *)
(* The canister keeps ideas in a stable B-tree map (survives an upgrade)   *)
(* and campaigns, documents and the document counter on the heap (lost on  *)
(* an upgrade).  Every #[update] / #[query] entry point runs to completion *)
(* as one message; a trap (ic_cdk::trap or a Rust panic) discards every    *)
(* change the message made.                                                *)
(*                                                                         *)
(* Integers: TLC's integers are 32 bits wide, so the 64-bit words of the   *)
(* program are modelled as WordBits-bit words and a second has             *)
(* NanosPerSec nanoseconds; casts and wrap-around keep their shape.        *)
(***************************************************************************)
EXTENDS Integers, Sequences, FiniteSets, TLC

VARIABLES
    IDEAS,            \* StableBTreeMap<u64, Idea>: id -> stored bytes
    CAMPAIGNS,        \* Vec<Campaign>
    DOCS,             \* HashMap<u64, Doc>
    IDEA_COUNTER,     \* u64 (declared, never used by the code)
    DOC_COUNTER,      \* u64
    time,             \* ic_cdk::api::time(): ns since the epoch, fixed within a message
    installed,        \* canister_init has run
    overflow_checks,  \* build profile: arithmetic overflow panics (TRUE) or wraps (FALSE)
    issued,           \* history: greatest id returned so far in each namespace
    last              \* history: the last message, its arguments and its reply

vars == <<IDEAS, CAMPAIGNS, DOCS, IDEA_COUNTER, DOC_COUNTER, time, installed,
          overflow_checks, issued, last>>

----------------------------------------------------------------------------
(* Scale and bounds *)

WordBits == 26

NanosPerSec == 10

SecsPerDay == 86400

MAX_VALUE_SIZE == 2000

MaxIdeas == 3

MaxCampaigns == 2

MaxTicks == 1

RECURSIVE Pow2(_)
Pow2(n) == IF n = 0 THEN 1 ELSE 2 * Pow2(n - 1)

U64_MODULUS == Pow2(WordBits)

U64_MAX == U64_MODULUS - 1

I64_MIN == -Pow2(WordBits - 1)

I64_MAX == Pow2(WordBits - 1) - 1

\* First instant of the model, at which the canister is installed: ten days
\* after the epoch.
T0 == 10 * SecsPerDay * NanosPerSec

\* The clock advances by seven days and one second at a time.
TickStep == (7 * SecsPerDay + 1) * NanosPerSec

MaxTime == T0 + MaxTicks * TickStep

----------------------------------------------------------------------------
(* Machine arithmetic *)

\* A computed value, or a panic.
Val(v) == [panic |-> FALSE, val |-> v]

Panic == [panic |-> TRUE, val |-> 0]

\* `x as i64` for a u64 x: reinterpretation of the bits, never a panic.
as_i64(x) == IF x > I64_MAX THEN x - U64_MODULUS ELSE x

\* Two's complement wrap-around of a mathematical integer into the i64 range.
wrap_i64(z) == ((z - I64_MIN) % U64_MODULUS) + I64_MIN

\* a - b on i64: overflow panics with overflow checks on, wraps otherwise.
i64_sub(a, b, checks) ==
    LET z == a - b
    IN  IF z < I64_MIN \/ z > I64_MAX
        THEN IF checks THEN Panic ELSE Val(wrap_i64(z))
        ELSE Val(z)

\* a / b on i64 with b > 0: the quotient truncated toward zero.
i64_div(a, b) == IF a >= 0 THEN a \div b ELSE -((-a) \div b)

\* a + b and a - b on u64.
u64_add(a, b, checks) ==
    IF a + b > U64_MAX
    THEN IF checks THEN Panic ELSE Val((a + b) % U64_MODULUS)
    ELSE Val(a + b)

u64_sub(a, b, checks) ==
    IF a < b
    THEN IF checks THEN Panic ELSE Val((a - b) % U64_MODULUS)
    ELSE Val(a - b)

----------------------------------------------------------------------------
(* Option, Result and message outcomes *)

None == [some |-> FALSE, val |-> 0]

Some(v) == [some |-> TRUE, val |-> v]

\* The reply of a message, in one shape for every entry point.
Reply(kind, id, msg) == [kind |-> kind, id |-> id, msg |-> msg]

ReplyId(id) == Reply("id", id, "")

ReplyOk(id) == Reply("Ok", id, "")

ReplyErr(msg) == Reply("Err", 0, msg)

ReplySome(id) == Reply("Some", id, "")

ReplyNone == Reply("None", 0, "")

ReplyUnit == Reply("unit", 0, "")

\* The reply of a query: the value it returns.
ReplyValue(v) == [kind |-> "value", id |-> 0, msg |-> "", value |-> v]

ReplyTrap == Reply("trap", 0, "")

\* A message that ran to its end with canister state s, and one that trapped
\* leaving s behind.
Return(s, reply) == [trap |-> FALSE, reply |-> reply, st |-> s]

Trapped(s) == [trap |-> TRUE, reply |-> ReplyTrap, st |-> s]

\* The mutable canister state as one value.
Canister ==
    [IDEAS |-> IDEAS, CAMPAIGNS |-> CAMPAIGNS, DOCS |-> DOCS,
     IDEA_COUNTER |-> IDEA_COUNTER, DOC_COUNTER |-> DOC_COUNTER]

\* Map insert (HashMap::insert, StableBTreeMap::insert after encoding).
MapInsert(map, k, v) ==
    [x \in (DOMAIN map) \cup {k} |-> IF x = k THEN v ELSE map[x]]

EmptyMap == [x \in {} |-> 0]

----------------------------------------------------------------------------
(* Stable storage of ideas: impl Storable for Idea *)

\* Bytes of an unsigned LEB128 number.
LebSize(n) == IF n < 128 THEN 1 ELSE IF n < 16384 THEN 2 ELSE 3

\* Candid `text`: length prefix and the bytes.
TextSize(t) == LebSize(Len(t)) + Len(t)

\* Candid header of an Idea message: magic, the type table (a record of twelve
\* hashed fields, opt text, vec nat64) and the argument list.
CandidHeaderSize == 83

\* Candid nat64.
Nat64Size == 8

\* Length in bytes of Encode!(idea).
EncodedSize(idea) ==
    CandidHeaderSize
    + TextSize(idea.title) + TextSize(idea.description)
    + TextSize(idea.legal_entity) + TextSize(idea.contact_info)
    + TextSize(idea.category)
    + 4 * Nat64Size                                   \* funding_goal, current_funding, created_at, updated_at
    + 1                                               \* business_registration: nat8
    + 1 + (IF idea.status.some THEN TextSize(idea.status.val) ELSE 0)
    + LebSize(Len(idea.doc_ids)) + Nat64Size * Len(idea.doc_ids)

\* Storable::to_bytes / from_bytes: the stored bytes carry their length and
\* decode to the record they were encoded from.
to_bytes(idea) == [len |-> EncodedSize(idea), value |-> idea]

from_bytes(bytes) == bytes.value

\* StableBTreeMap::insert: the encoded value is checked against
\* BOUND.max_size before it is written; an oversized value panics.
stable_insert(map, k, idea) ==
    LET bytes == to_bytes(idea)
    IN  IF bytes.len > MAX_VALUE_SIZE THEN Panic ELSE Val(MapInsert(map, k, bytes))

\* StableBTreeMap::get, contains_key, len.
stable_get(map, k) == IF k \in DOMAIN map THEN Some(from_bytes(map[k])) ELSE None

contains_key(map, k) == k \in DOMAIN map

stable_len(map) == Cardinality(DOMAIN map)

----------------------------------------------------------------------------
(* Helpers *)

now_secs(t) == t \div NanosPerSec

get_idea(s, id) == stable_get(s.IDEAS, id)

NoCard ==
    [id |-> 0, idea_id |-> 0, title |-> "", category |-> "", amount_raised |-> 0,
     goal |-> 0, end_date |-> 0, days_left |-> 0]

\* to_card: Val(card), or Panic when the subtraction overflows under overflow checks.
to_card(c, idea, t, checks) ==
    LET now == as_i64(now_secs(t))
        diff == i64_sub(as_i64(c.end_date), now, checks)
    IN  IF diff.panic
        THEN [panic |-> TRUE, val |-> NoCard]
        ELSE Val([id |-> c.id,
                  idea_id |-> c.idea_id,
                  title |-> idea.title,
                  category |-> idea.category,
                  amount_raised |-> c.amount_raised,
                  goal |-> c.goal,
                  end_date |-> c.end_date,
                  days_left |-> i64_div(diff.val, SecsPerDay)])

----------------------------------------------------------------------------
(* create_idea *)

\* create_idea with current_funding initialised from funding_goal.
create_idea_starts_funded(s, now, title, description, funding_goal, legal_entity, contact_info, category, business_registration) ==
    IF \/ title = ""
       \/ description = ""
       \/ funding_goal = 0
       \/ legal_entity = ""
       \/ contact_info = ""
       \/ category = ""
    THEN Trapped(s)
    ELSE LET idea == [title |-> title,
                      description |-> description,
                      funding_goal |-> funding_goal,
                      current_funding |-> funding_goal,
                      legal_entity |-> legal_entity,
                      status |-> Some("pending"),
                      contact_info |-> contact_info,
                      doc_ids |-> <<>>,
                      category |-> category,
                      business_registration |-> business_registration,
                      created_at |-> now,
                      updated_at |-> now]
             id == stable_len(s.IDEAS) + 1
             ins == stable_insert(s.IDEAS, id, idea)
         IN  IF ins.panic
             THEN Trapped(s)
             ELSE Return([s EXCEPT !.IDEAS = ins.val], ReplyId(id))

\* create_idea without the check of category.
create_idea_accepts_empty_category(s, now, title, description, funding_goal, legal_entity, contact_info, category, business_registration) ==
    IF \/ title = ""
       \/ description = ""
       \/ funding_goal = 0
       \/ legal_entity = ""
       \/ contact_info = ""
    THEN Trapped(s)
    ELSE LET idea == [title |-> title,
                      description |-> description,
                      funding_goal |-> funding_goal,
                      current_funding |-> 0,
                      legal_entity |-> legal_entity,
                      status |-> Some("pending"),
                      contact_info |-> contact_info,
                      doc_ids |-> <<>>,
                      category |-> category,
                      business_registration |-> business_registration,
                      created_at |-> now,
                      updated_at |-> now]
             id == stable_len(s.IDEAS) + 1
             ins == stable_insert(s.IDEAS, id, idea)
         IN  IF ins.panic
             THEN Trapped(s)
             ELSE Return([s EXCEPT !.IDEAS = ins.val], ReplyId(id))

\* An idea id taken from the heap counter IDEA_COUNTER instead of the map's length.
create_idea_uses_heap_counter(s, now, title, description, funding_goal, legal_entity, contact_info, category, business_registration) ==
    IF \/ title = ""
       \/ description = ""
       \/ funding_goal = 0
       \/ legal_entity = ""
       \/ contact_info = ""
       \/ category = ""
    THEN Trapped(s)
    ELSE LET idea == [title |-> title,
                      description |-> description,
                      funding_goal |-> funding_goal,
                      current_funding |-> 0,
                      legal_entity |-> legal_entity,
                      status |-> Some("pending"),
                      contact_info |-> contact_info,
                      doc_ids |-> <<>>,
                      category |-> category,
                      business_registration |-> business_registration,
                      created_at |-> now,
                      updated_at |-> now]
             id == s.IDEA_COUNTER + 1
             ins == stable_insert(s.IDEAS, id, idea)
         IN  IF ins.panic
             THEN Trapped(s)
             ELSE Return([s EXCEPT !.IDEAS = ins.val, !.IDEA_COUNTER = id], ReplyId(id))

create_idea(s, now, title, description, funding_goal, legal_entity, contact_info, category, business_registration) ==
    IF \/ title = ""
       \/ description = ""
       \/ funding_goal = 0
       \/ legal_entity = ""
       \/ contact_info = ""
       \/ category = ""
    THEN Trapped(s)
    ELSE LET idea == [title |-> title,
                      description |-> description,
                      funding_goal |-> funding_goal,
                      current_funding |-> 0,
                      legal_entity |-> legal_entity,
                      status |-> Some("pending"),
                      contact_info |-> contact_info,
                      doc_ids |-> <<>>,
                      category |-> category,
                      business_registration |-> business_registration,
                      created_at |-> now,
                      updated_at |-> now]
             id == stable_len(s.IDEAS) + 1
             ins == stable_insert(s.IDEAS, id, idea)
         IN  IF ins.panic
             THEN Trapped(s)
             ELSE Return([s EXCEPT !.IDEAS = ins.val], ReplyId(id))

----------------------------------------------------------------------------
(* create_campaign *)

\* create_campaign without the check that the idea exists.
create_campaign_unchecked_idea(s, idea_id, goal, end_date) ==
    IF goal = 0
    THEN Return(s, ReplyErr("goal must be > 0"))
    ELSE IF FALSE
    THEN Return(s, ReplyErr("idea_id not found"))
    ELSE LET new_id == Len(s.CAMPAIGNS) + 1
             c == [id |-> new_id,
                   idea_id |-> idea_id,
                   amount_raised |-> 0,
                   goal |-> goal,
                   end_date |-> end_date]
         IN  Return([s EXCEPT !.CAMPAIGNS = Append(@, c)], ReplyOk(new_id))

\* create_campaign with its two checks in the other order.
create_campaign_checks_idea_first(s, idea_id, goal, end_date) ==
    IF ~get_idea(s, idea_id).some
    THEN Return(s, ReplyErr("idea_id not found"))
    ELSE IF goal = 0
    THEN Return(s, ReplyErr("goal must be > 0"))
    ELSE LET new_id == Len(s.CAMPAIGNS) + 1
             c == [id |-> new_id,
                   idea_id |-> idea_id,
                   amount_raised |-> 0,
                   goal |-> goal,
                   end_date |-> end_date]
         IN  Return([s EXCEPT !.CAMPAIGNS = Append(@, c)], ReplyOk(new_id))

\* A campaign whose creation also records its goal in the idea it funds.
create_campaign_touches_idea(s, idea_id, goal, end_date) ==
    IF goal = 0
    THEN Return(s, ReplyErr("goal must be > 0"))
    ELSE IF ~get_idea(s, idea_id).some
    THEN Return(s, ReplyErr("idea_id not found"))
    ELSE LET new_id == Len(s.CAMPAIGNS) + 1
             c == [id |-> new_id,
                   idea_id |-> idea_id,
                   amount_raised |-> 0,
                   goal |-> goal,
                   end_date |-> end_date]
             idea == [get_idea(s, idea_id).val EXCEPT !.funding_goal = goal + 1]
             ins == stable_insert(s.IDEAS, idea_id, idea)
         IN  IF ins.panic
             THEN Trapped(s)
             ELSE Return([s EXCEPT !.CAMPAIGNS = Append(@, c), !.IDEAS = ins.val],
                         ReplyOk(new_id))

create_campaign(s, idea_id, goal, end_date) ==
    IF goal = 0
    THEN Return(s, ReplyErr("goal must be > 0"))
    ELSE IF ~get_idea(s, idea_id).some
    THEN Return(s, ReplyErr("idea_id not found"))
    ELSE LET new_id == Len(s.CAMPAIGNS) + 1
             c == [id |-> new_id,
                   idea_id |-> idea_id,
                   amount_raised |-> 0,
                   goal |-> goal,
                   end_date |-> end_date]
         IN  Return([s EXCEPT !.CAMPAIGNS = Append(@, c)], ReplyOk(new_id))

----------------------------------------------------------------------------
(* upload_doc *)

\* RefCell::borrow_mut succeeds only while no Ref and no RefMut of the cell is
\* alive; otherwise it panics (BorrowMutError).
borrow_mut_ok(refs, ref_muts) == refs = 0 /\ ref_muts = 0

\* Ref guards of IDEAS alive inside the body of `if let Some(mut idea) =
\* ideas.borrow().get(&idea_id)`: the temporary Ref of the scrutinee is dropped
\* at the end of the whole `if let`, so it is alive while the body runs.
IfLetScrutineeRefs == 1

\* The closure passed to IDEAS.with: attach doc_id to the idea.
attach_to_idea(s, idea_id, doc_id) ==
    LET found == stable_get(s.IDEAS, idea_id)
    IN  IF found.some
        THEN LET idea == [found.val EXCEPT !.doc_ids = Append(@, doc_id)]
             IN  IF ~borrow_mut_ok(IfLetScrutineeRefs, 0)
                 THEN Trapped(s)
                 ELSE LET ins == stable_insert(s.IDEAS, idea_id, idea)
                      IN  IF ins.panic
                          THEN Trapped(s)
                          ELSE Return([s EXCEPT !.IDEAS = ins.val], ReplySome(doc_id))
        ELSE Return(s, ReplySome(doc_id))

\* An upload that takes its document id before it looks the idea up.
upload_doc_counts_before_lookup(s, idea_id, name, content_type, data, uploaded_at) ==
    LET doc_id == s.DOC_COUNTER + 1
        counted == [s EXCEPT !.DOC_COUNTER = doc_id]
    IN  IF ~contains_key(s.IDEAS, idea_id)
        THEN Return(counted, ReplyNone)
        ELSE LET doc == [id |-> doc_id,
                         idea_id |-> idea_id,
                         name |-> name,
                         content_type |-> content_type,
                         data |-> data,
                         uploaded_at |-> uploaded_at]
                 s1 == [counted EXCEPT !.DOCS = MapInsert(@, doc_id, doc)]
             IN  attach_to_idea(s1, idea_id, doc_id)

upload_doc(s, idea_id, name, content_type, data, uploaded_at) ==
    IF ~contains_key(s.IDEAS, idea_id)
    THEN Return(s, ReplyNone)
    ELSE LET doc_id == s.DOC_COUNTER + 1
             doc == [id |-> doc_id,
                     idea_id |-> idea_id,
                     name |-> name,
                     content_type |-> content_type,
                     data |-> data,
                     uploaded_at |-> uploaded_at]
             s1 == [s EXCEPT !.DOC_COUNTER = doc_id,
                             !.DOCS = MapInsert(@, doc_id, doc)]
         IN  attach_to_idea(s1, idea_id, doc_id)

----------------------------------------------------------------------------
(* Queries *)

\* The reply of a card query: the cards, or a trap.
Cards(cards) == [trap |-> FALSE, cards |-> cards]

CardsTrap == [trap |-> TRUE, cards |-> <<>>]

\* iter().filter_map(|c| get_idea(c.idea_id).map(|idea| to_card(c, &idea)))
\* over the first k campaigns.
RECURSIVE join_cards(_, _, _, _)
join_cards(s, k, t, checks) ==
    IF k = 0
    THEN Cards(<<>>)
    ELSE LET rest == join_cards(s, k - 1, t, checks)
             c == s.CAMPAIGNS[k]
             idea == get_idea(s, c.idea_id)
         IN  IF rest.trap
             THEN CardsTrap
             ELSE IF ~idea.some
             THEN rest
             ELSE LET card == to_card(c, idea.val, t, checks)
                  IN  IF card.panic
                      THEN CardsTrap
                      ELSE Cards(Append(rest.cards, card.val))

get_campaign_cards(s, t, checks) == join_cards(s, Len(s.CAMPAIGNS), t, checks)

\* A filter whose Ended arm looks at days_left alone.
status_matches_by_days_left(status, card, now) ==
    IF status = "Active"
    THEN card.days_left >= 0 /\ as_i64(card.end_date) >= now
    ELSE card.days_left < 0

\* The filter closure of get_campaign_cards_by_status.
status_matches(status, card, now) ==
    IF status = "Active"
    THEN card.days_left >= 0 /\ as_i64(card.end_date) >= now
    ELSE card.days_left < 0 \/ as_i64(card.end_date) < now

get_campaign_cards_by_status(s, status, t, checks) ==
    LET now == as_i64(now_secs(t))
        all == join_cards(s, Len(s.CAMPAIGNS), t, checks)
    IN  IF all.trap
        THEN CardsTrap
        ELSE Cards(SelectSeq(all.cards, LAMBDA card : status_matches(status, card, now)))

get_doc(s, doc_id) == IF doc_id \in DOMAIN s.DOCS THEN Some(s.DOCS[doc_id]) ELSE None

get_idea_by_id(s, idea_id) == get_idea(s, idea_id)

\* The index of the first campaign with this id, 0 when there is none:
\* iter().find(|c| c.id == campaign_id).
find_campaign(s, campaign_id) ==
    LET hits == {k \in 1..Len(s.CAMPAIGNS) : s.CAMPAIGNS[k].id = campaign_id}
    IN  IF hits = {} THEN 0 ELSE CHOOSE k \in hits : \A j \in hits : k <= j

\* The campaign's card joined with its idea, absent when the campaign or its
\* idea is missing; to_card may panic.
get_campaign_with_idea(s, campaign_id, t, checks) ==
    LET k == find_campaign(s, campaign_id)
    IN  IF k = 0
        THEN [trap |-> FALSE, val |-> None]
        ELSE LET c == s.CAMPAIGNS[k]
                 idea == get_idea(s, c.idea_id)
             IN  IF ~idea.some
                 THEN [trap |-> FALSE, val |-> None]
                 ELSE LET card == to_card(c, idea.val, t, checks)
                      IN  IF card.panic
                          THEN [trap |-> TRUE, val |-> None]
                          ELSE [trap |-> FALSE,
                                val |-> Some([campaign |-> card.val, idea |-> idea.val])]

----------------------------------------------------------------------------
(* init: the demo seed *)

init(s, now, checks) ==
    LET i1 == create_idea(s, now, "Eco-Friendly Water Bottles",
                          "Reusable bottles made from recycled materials", 100000,
                          "EcoCorp LLC", "contact@ecocorp.example", "Environment", 1)
        i2 == create_idea(i1.st, now, "Indie Pixel Art Game",
                          "A cozy RPG with retro pixel art", 100000,
                          "IndieStudio Ltd", "hello@indiestudio.example", "Gaming", 1)
        end1 == u64_add(now, 7 * SecsPerDay * NanosPerSec, checks)
        end2 == u64_sub(now, 5 * SecsPerDay * NanosPerSec, checks)
    IN  IF i1.trap \/ i2.trap \/ end1.panic \/ end2.panic
        THEN Trapped(s)
        ELSE LET c1 == create_campaign(i2.st, i1.reply.id, 100000, end1.val)
                 c2 == create_campaign(c1.st, i2.reply.id, 100000, end2.val)
             IN  Return(c2.st, ReplyUnit)

----------------------------------------------------------------------------
(* Messages *)

\* A message whose changes stay in place when it traps.
update_keeps_partial_state(s, out) == out.st

\* #[update] / #[init]: the state a message leaves behind.  A message that
\* trapped leaves the state it started from.
update(s, out) == IF out.trap THEN s ELSE out.st

\* A card query that empties the campaign vector while it reads it
\* (drain(..) in place of iter()).
query_get_campaign_cards_drains(s, t, checks) ==
    LET r == get_campaign_cards(s, t, checks)
    IN  IF r.trap THEN Trapped(s)
        ELSE Return([s EXCEPT !.CAMPAIGNS = <<>>], ReplyValue(r.cards))

\* The #[query] entry points as messages: the reply, and the state the call
\* leaves behind.  Each body only takes shared borrows (borrow()) of the stores.
query_get_campaign_cards(s, t, checks) ==
    LET r == get_campaign_cards(s, t, checks)
    IN  IF r.trap THEN Trapped(s) ELSE Return(s, ReplyValue(r.cards))

query_get_campaign_cards_by_status(s, status, t, checks) ==
    LET r == get_campaign_cards_by_status(s, status, t, checks)
    IN  IF r.trap THEN Trapped(s) ELSE Return(s, ReplyValue(r.cards))

query_get_campaign_with_idea(s, campaign_id, t, checks) ==
    LET r == get_campaign_with_idea(s, campaign_id, t, checks)
    IN  IF r.trap THEN Trapped(s) ELSE Return(s, ReplyValue(r.val))

query_get_doc(s, doc_id) == Return(s, ReplyValue(get_doc(s, doc_id)))

query_get_idea_by_id(s, idea_id) == Return(s, ReplyValue(get_idea_by_id(s, idea_id)))

SetCanister(s) ==
    /\ IDEAS' = s.IDEAS
    /\ CAMPAIGNS' = s.CAMPAIGNS
    /\ DOCS' = s.DOCS
    /\ IDEA_COUNTER' = s.IDEA_COUNTER
    /\ DOC_COUNTER' = s.DOC_COUNTER

Max(a, b) == IF a >= b THEN a ELSE b

NoArgs == [none |-> 0]

Message(op, args, reply) == [op |-> op, args |-> args, reply |-> reply]

(* Inputs *)

\* A text of 2048 bytes.
LongText ==
    LET a == "xxxxxxxx"
        b == a \o a \o a \o a
        c == b \o b \o b \o b
        d == c \o c \o c \o c
    IN  d \o d \o d \o d

ValidIdea ==
    [title |-> "A", description |-> "d", funding_goal |-> 100, legal_entity |-> "L",
     contact_info |-> "c", category |-> "Tech", business_registration |-> 1]

CreateIdeaInputs ==
    {ValidIdea,
     [ValidIdea EXCEPT !.title = ""],
     [ValidIdea EXCEPT !.description = ""],
     [ValidIdea EXCEPT !.funding_goal = 0],
     [ValidIdea EXCEPT !.legal_entity = ""],
     [ValidIdea EXCEPT !.contact_info = ""],
     [ValidIdea EXCEPT !.category = ""],
     [ValidIdea EXCEPT !.description = LongText]}

\* An idea id that always exists once installed, one that exists only when the
\* store is full, and one that never exists.
IdeaIdInputs == {1, MaxIdeas, MaxIdeas + 1}

GoalInputs == {0, 100}

\* Seven days after and five days before the first instant, and the least u64
\* whose cast to i64 is negative.
EndDateInputs ==
    {now_secs(T0) + 7 * SecsPerDay, now_secs(T0) - 5 * SecsPerDay, I64_MAX + 1}

\* The first document id, and the first campaign id and one that is never used.
DocIdInputs == {1}

CampaignIdInputs == {1, MaxCampaigns + 1}

StatusInputs == {"Active", "Ended"}

(* Actions *)

\* canister_init: runs init once, at installation.
Install ==
    /\ ~installed
    /\ LET out == init(Canister, time, overflow_checks)
           s == update(Canister, out)
       IN  /\ SetCanister(s)
           /\ installed' = ~out.trap
           /\ issued' = [idea |-> Max(issued.idea, stable_len(s.IDEAS)),
                         campaign |-> Max(issued.campaign, Len(s.CAMPAIGNS)),
                         doc |-> issued.doc]
           /\ last' = Message("init", NoArgs, out.reply)
    /\ UNCHANGED <<time, overflow_checks>>

CreateIdea ==
    /\ installed
    /\ \E a \in CreateIdeaInputs :
         LET out == create_idea(Canister, time, a.title, a.description, a.funding_goal,
                                a.legal_entity, a.contact_info, a.category,
                                a.business_registration)
         IN  /\ stable_len(update(Canister, out).IDEAS) <= MaxIdeas
             /\ SetCanister(update(Canister, out))
             /\ issued' = IF out.reply.kind = "id"
                          THEN [issued EXCEPT !.idea = Max(@, out.reply.id)]
                          ELSE issued
             /\ last' = Message("create_idea", a, out.reply)
    /\ UNCHANGED <<time, installed, overflow_checks>>

CreateCampaign ==
    /\ installed
    /\ \E idea_id \in IdeaIdInputs, goal \in GoalInputs, end_date \in EndDateInputs :
         LET out == create_campaign(Canister, idea_id, goal, end_date)
         IN  /\ Len(update(Canister, out).CAMPAIGNS) <= MaxCampaigns
             /\ SetCanister(update(Canister, out))
             /\ issued' = IF out.reply.kind = "Ok"
                          THEN [issued EXCEPT !.campaign = Max(@, out.reply.id)]
                          ELSE issued
             /\ last' = Message("create_campaign",
                                [idea_id |-> idea_id, goal |-> goal, end_date |-> end_date],
                                out.reply)
    /\ UNCHANGED <<time, installed, overflow_checks>>

UploadDoc ==
    /\ installed
    /\ \E idea_id \in IdeaIdInputs :
         LET a == [idea_id |-> idea_id, name |-> "plan.pdf",
                   content_type |-> "application/pdf", data |-> <<37, 80>>,
                   uploaded_at |-> time]
             out == upload_doc(Canister, a.idea_id, a.name, a.content_type, a.data,
                               a.uploaded_at)
         IN  /\ SetCanister(update(Canister, out))
             /\ issued' = IF out.reply.kind = "Some"
                          THEN [issued EXCEPT !.doc = Max(@, out.reply.id)]
                          ELSE issued
             /\ last' = Message("upload_doc", a, out.reply)
    /\ UNCHANGED <<time, installed, overflow_checks>>

\* A canister upgrade: stable memory is kept, the heap starts afresh, and init
\* does not run again (there is no post_upgrade hook).
Restart ==
    /\ installed
    /\ IDEAS' = IDEAS
    /\ CAMPAIGNS' = <<>>
    /\ DOCS' = EmptyMap
    /\ IDEA_COUNTER' = 0
    /\ DOC_COUNTER' = 0
    /\ last' = Message("restart", NoArgs, ReplyUnit)
    /\ UNCHANGED <<time, installed, overflow_checks, issued>>

\* Time passes between messages; the clock never goes back.  T0 is the instant
\* of installation.
Tick ==
    /\ installed
    /\ time + TickStep <= MaxTime
    /\ time' = time + TickStep
    /\ last' = Message("tick", NoArgs, ReplyUnit)
    /\ UNCHANGED <<IDEAS, CAMPAIGNS, DOCS, IDEA_COUNTER, DOC_COUNTER, installed,
                   overflow_checks, issued>>

\* What every query leaves alone.  A query called as an update keeps the state
\* it leaves; called as a query, its changes are dropped.
QueryFrame(out) ==
    /\ SetCanister(update(Canister, out))
    /\ UNCHANGED <<time, installed, overflow_checks, issued>>

GetIdeaById ==
    /\ installed
    /\ \E idea_id \in IdeaIdInputs :
         LET out == query_get_idea_by_id(Canister, idea_id)
         IN  /\ QueryFrame(out)
             /\ last' = Message("get_idea_by_id", [idea_id |-> idea_id], out.reply)

GetDoc ==
    /\ installed
    /\ \E doc_id \in DocIdInputs :
         LET out == query_get_doc(Canister, doc_id)
         IN  /\ QueryFrame(out)
             /\ last' = Message("get_doc", [doc_id |-> doc_id], out.reply)

GetCampaignCards ==
    /\ installed
    /\ LET out == query_get_campaign_cards(Canister, time, overflow_checks)
       IN  /\ QueryFrame(out)
           /\ last' = Message("get_campaign_cards", NoArgs, out.reply)

GetCampaignCardsByStatus ==
    /\ installed
    /\ \E status \in StatusInputs :
         LET out == query_get_campaign_cards_by_status(Canister, status, time,
                                                       overflow_checks)
         IN  /\ QueryFrame(out)
             /\ last' = Message("get_campaign_cards_by_status", [status |-> status],
                                out.reply)

GetCampaignWithIdea ==
    /\ installed
    /\ \E campaign_id \in CampaignIdInputs :
         LET out == query_get_campaign_with_idea(Canister, campaign_id, time,
                                                 overflow_checks)
         IN  /\ QueryFrame(out)
             /\ last' = Message("get_campaign_with_idea",
                                [campaign_id |-> campaign_id], out.reply)

Init ==
    /\ IDEAS = EmptyMap
    /\ CAMPAIGNS = <<>>
    /\ DOCS = EmptyMap
    /\ IDEA_COUNTER = 0
    /\ DOC_COUNTER = 0
    /\ time = T0
    /\ installed = FALSE
    /\ overflow_checks \in BOOLEAN
    /\ issued = [idea |-> 0, campaign |-> 0, doc |-> 0]
    /\ last = Message("none", NoArgs, ReplyUnit)

Next ==
    \/ Install
    \/ CreateIdea
    \/ CreateCampaign
    \/ UploadDoc
    \/ GetIdeaById
    \/ GetDoc
    \/ GetCampaignCards
    \/ GetCampaignCardsByStatus
    \/ GetCampaignWithIdea
    \/ Restart
    \/ Tick

Spec == Init /\ [][Next]_vars

----------------------------------------------------------------------------
(* The end dates at the edges of to_card's arithmetic *)

\* End dates around the two instants of the clock (a day before, less than a
\* day before and after, seven days after), and around the casts' edges: the
\* greatest u64 whose cast to i64 is positive, the least whose cast is
\* negative, one past every instant of the clock, and the greatest u64.
EdgeEndDateInputs ==
    {now_secs(T0) - SecsPerDay,
     now_secs(T0) - SecsPerDay + 1,
     now_secs(T0) - 1,
     now_secs(T0),
     now_secs(T0) + SecsPerDay - 1,
     now_secs(T0) + 7 * SecsPerDay,
     I64_MAX,
     I64_MAX + 1,
     I64_MAX + 1 + now_secs(MaxTime) + 1,
     U64_MAX}

\* create_campaign for the first idea with an end date from the edges.
CreateCampaignEdge ==
    /\ installed
    /\ \E end_date \in EdgeEndDateInputs :
         LET a == [idea_id |-> 1, goal |-> 100, end_date |-> end_date]
             out == create_campaign(Canister, a.idea_id, a.goal, a.end_date)
         IN  /\ Len(update(Canister, out).CAMPAIGNS) <= MaxCampaigns
             /\ SetCanister(update(Canister, out))
             /\ issued' = IF out.reply.kind = "Ok"
                          THEN [issued EXCEPT !.campaign = Max(@, out.reply.id)]
                          ELSE issued
             /\ last' = Message("create_campaign", a, out.reply)
    /\ UNCHANGED <<time, installed, overflow_checks>>

NextEdge ==
    \/ Install
    \/ CreateCampaignEdge
    \/ Restart
    \/ Tick

SpecEdge == Init /\ [][NextEdge]_vars

----------------------------------------------------------------------------
(* Properties *)

SeqRange(q) == {q[k] : k \in 1..Len(q)}

\* The message of this step is a call of op.
Called(op) == last'.op = op

\* C1: in any reachable state where idea i exists, upload_doc(i, name,
\* content_type, data, uploaded_at) completes and returns a document id d that
\* was not stored before; get_doc(d) afterwards returns the document with
\* idea_id = i and the supplied fields; and idea i's doc_ids afterwards is its
\* prior doc_ids with d appended at the end.
C1_UploadAppendsNewDocId ==
    [][(Called("upload_doc") /\ contains_key(IDEAS, last'.args.idea_id)) =>
         LET a == last'.args
             d == last'.reply.id
         IN  /\ last'.reply.kind = "Some"
             /\ d \notin DOMAIN DOCS
             /\ get_doc(Canister', d) =
                  Some([id |-> d, idea_id |-> a.idea_id, name |-> a.name,
                        content_type |-> a.content_type, data |-> a.data,
                        uploaded_at |-> a.uploaded_at])
             /\ get_idea_by_id(Canister', a.idea_id).val.doc_ids =
                  Append(get_idea_by_id(Canister, a.idea_id).val.doc_ids, d)
             /\ d \notin SeqRange(get_idea_by_id(Canister, a.idea_id).val.doc_ids)
      ]_vars

\* Campaign c's card is among the cards of a query reply.
HasCard(r, c) == ~r.trap /\ \E j \in 1..Len(r.cards) : r.cards[j].id = c.id

\* C3: for every stored campaign whose idea exists and every current time
\* now (in seconds), get_campaign_cards_by_status(Active) contains the
\* campaign's card iff days_left >= 0 and end_date >= now, and
\* get_campaign_cards_by_status(Ended) contains it otherwise; a campaign with
\* end_date = now + 7 days is Active and not Ended, one with end_date =
\* now - 5 days is Ended and not Active.
C3_StatusClassification ==
    \A k \in 1..Len(CAMPAIGNS) :
      LET c == CAMPAIGNS[k]
          idea == get_idea(Canister, c.idea_id)
          now == now_secs(time)
          active == get_campaign_cards_by_status(Canister, "Active", time, overflow_checks)
          ended == get_campaign_cards_by_status(Canister, "Ended", time, overflow_checks)
      IN  idea.some =>
            LET card == to_card(c, idea.val, time, overflow_checks)
                is_active == ~card.panic /\ card.val.days_left >= 0 /\ c.end_date >= now
            IN  /\ HasCard(active, c) <=> is_active
                /\ HasCard(ended, c) <=> ~is_active
                /\ c.end_date = now + 7 * SecsPerDay =>
                     HasCard(active, c) /\ ~HasCard(ended, c)
                /\ c.end_date = now - 5 * SecsPerDay =>
                     HasCard(ended, c) /\ ~HasCard(active, c)

\* C4: within each namespace (ideas, campaigns, documents) the first
\* successful creation returns 1 and every later successful creation returns
\* an id strictly greater than every id returned before in that namespace; a
\* creation in one namespace does not advance another.
C4_IdsStrictlyIncrease ==
    [][/\ (Called("init") /\ ~(last'.reply.kind = "trap")) =>
            /\ issued.idea = 0 /\ issued.campaign = 0
            /\ DOMAIN IDEAS' = 1..2
            /\ [k \in 1..Len(CAMPAIGNS') |-> CAMPAIGNS'[k].id] = <<1, 2>>
       /\ (Called("create_idea") /\ last'.reply.kind = "id") =>
            /\ last'.reply.id > issued.idea
            /\ Len(CAMPAIGNS') = Len(CAMPAIGNS) /\ DOC_COUNTER' = DOC_COUNTER
       /\ (Called("create_campaign") /\ last'.reply.kind = "Ok") =>
            /\ last'.reply.id > issued.campaign
            /\ stable_len(IDEAS') = stable_len(IDEAS) /\ DOC_COUNTER' = DOC_COUNTER
       /\ (Called("upload_doc") /\ last'.reply.kind = "Some") =>
            /\ last'.reply.id > issued.doc
            /\ stable_len(IDEAS') = stable_len(IDEAS) /\ Len(CAMPAIGNS') = Len(CAMPAIGNS)
      ]_vars

\* The preconditions of create_idea that the code validates.
ValidCreateIdeaArgs(a) ==
    /\ a.title # "" /\ a.description # "" /\ a.legal_entity # ""
    /\ a.contact_info # "" /\ a.category # ""
    /\ a.funding_goal > 0

\* The record the claim expects create_idea to store for arguments a.
ClaimedIdea(a, created) ==
    [title |-> a.title, description |-> a.description, funding_goal |-> a.funding_goal,
     current_funding |-> 0, legal_entity |-> a.legal_entity, status |-> Some("pending"),
     contact_info |-> a.contact_info, doc_ids |-> <<>>, category |-> a.category,
     business_registration |-> a.business_registration,
     created_at |-> created, updated_at |-> created]

\* This step's create_idea(a) returned a fresh id and stored the claimed record.
IdeaCreatedAsClaimed(a) ==
    LET id == last'.reply.id
        r == get_idea_by_id(Canister', id)
    IN  /\ last'.reply.kind = "id"
        /\ ~contains_key(IDEAS, id)
        /\ stable_len(IDEAS') = stable_len(IDEAS) + 1
        /\ r.some
        /\ r.val.created_at = r.val.updated_at
        /\ r.val = ClaimedIdea(a, r.val.created_at)

\* C5 as stated: every create_idea call whose five text fields are non-empty
\* and whose funding_goal > 0 returns an id that was not a key of the idea
\* store, grows the store by exactly one entry, and get_idea_by_id(id) then
\* returns the inputs with current_funding = 0, status "pending", doc_ids
\* empty and created_at = updated_at.
C5_ValidCreateIdeaAlwaysStores ==
    [][(Called("create_idea") /\ ValidCreateIdeaArgs(last'.args)) =>
         IdeaCreatedAsClaimed(last'.args)]_vars

\* C5, amended: the same for every such call whose Candid-encoded record fits
\* in MAX_VALUE_SIZE bytes.
C5_ValidCreateIdeaStoresIfItFits ==
    [][(/\ Called("create_idea")
        /\ ValidCreateIdeaArgs(last'.args)
        /\ EncodedSize(ClaimedIdea(last'.args, time)) <= MAX_VALUE_SIZE) =>
         IdeaCreatedAsClaimed(last'.args)]_vars

\* C5 witness: a valid create_idea has just stored idea 3.
C5_Witness ==
    /\ last.op = "create_idea"
    /\ ValidCreateIdeaArgs(last.args)
    /\ last.reply = ReplyId(3)
    /\ get_idea_by_id(Canister, 3) = Some(ClaimedIdea(last.args, time))

\* C2: in every reachable state, every id d in the doc_ids of a stored idea i
\* is the id of a stored document whose idea_id is i.
C2_DocIdsReferToOwnDocs ==
    \A i \in DOMAIN IDEAS :
      \A d \in SeqRange(get_idea(Canister, i).val.doc_ids) :
        get_doc(Canister, d).some /\ get_doc(Canister, d).val.idea_id = i

\* C6: in every reachable state every stored campaign's idea_id is the id of a
\* stored idea, and get_campaign_cards returns exactly one card per stored
\* campaign, each with the title and category of the idea with id card.idea_id.
C6_OneCardPerCampaign ==
    /\ \A k \in 1..Len(CAMPAIGNS) : contains_key(IDEAS, CAMPAIGNS[k].idea_id)
    /\ LET r == get_campaign_cards(Canister, time, overflow_checks)
       IN  /\ ~r.trap
           /\ Len(r.cards) = Len(CAMPAIGNS)
           /\ \A k \in 1..Len(r.cards) :
                /\ r.cards[k].id = CAMPAIGNS[k].id
                /\ r.cards[k].idea_id = CAMPAIGNS[k].idea_id
                /\ r.cards[k].title = get_idea(Canister, r.cards[k].idea_id).val.title
                /\ r.cards[k].category = get_idea(Canister, r.cards[k].idea_id).val.category

\* Document d of state s has no owning idea, or its idea's doc_ids lacks d.
Orphaned(s, d) ==
    LET owner == get_idea(s, s.DOCS[d].idea_id)
    IN  ~owner.some \/ d \notin SeqRange(owner.val.doc_ids)

\* C7: in every state observable between operations, every stored document
\* has a stored owning idea whose doc_ids contains the document's id: the
\* document insert is never observed without the write-back into the idea.
C7_NoOrphanDocument == \A d \in DOMAIN DOCS : ~Orphaned(Canister, d)

\* C7 witness: upload_doc has just run on an existing idea, inserted its
\* document, failed to write the idea back, and left no trace of the insert.
C7_Witness ==
    /\ last.op = "upload_doc"
    /\ contains_key(IDEAS, last.args.idea_id)
    /\ LET a == last.args
           out == upload_doc(Canister, a.idea_id, a.name, a.content_type, a.data,
                             a.uploaded_at)
       IN  /\ out.trap
           /\ \E d \in DOMAIN out.st.DOCS : Orphaned(out.st, d)
           /\ last.reply = out.reply
    /\ DOCS = EmptyMap

\* C8: create_campaign(idea_id, goal, end_date) with goal > 0 and idea_id not
\* a key of the idea store returns the recoverable idea-not-found error and
\* leaves every store and counter, and so the result of get_campaign_cards,
\* unchanged.
C8_UnknownIdeaIsAnError ==
    [][(/\ Called("create_campaign")
        /\ last'.args.goal > 0
        /\ ~contains_key(IDEAS, last'.args.idea_id)) =>
         /\ last'.reply = ReplyErr("idea_id not found")
         /\ Canister' = Canister
         /\ get_campaign_cards(Canister', time', overflow_checks') =
              get_campaign_cards(Canister, time, overflow_checks)]_vars

\* C8 witness: such a call was made while campaigns were stored.
C8_Witness ==
    /\ last.op = "create_campaign"
    /\ last.args.goal > 0
    /\ ~contains_key(IDEAS, last.args.idea_id)
    /\ last.reply.kind = "Err"
    /\ Len(CAMPAIGNS) > 0

\* C9: create_campaign with goal = 0 returns the recoverable goal error whether
\* or not idea_id exists, and changes no store.
C9_ZeroGoalIsTheGoalError ==
    [][(Called("create_campaign") /\ last'.args.goal = 0) =>
         /\ last'.reply = ReplyErr("goal must be > 0")
         /\ Canister' = Canister]_vars

\* C9 witness: goal = 0 with an unknown idea_id was answered with the goal error.
C9_Witness ==
    /\ last.op = "create_campaign"
    /\ last.args.goal = 0
    /\ ~contains_key(IDEAS, last.args.idea_id)
    /\ last.reply = ReplyErr("goal must be > 0")

\* C10: create_idea with any of title, description, legal_entity,
\* contact_info or category empty, or with funding_goal = 0, aborts and has no
\* effect on the idea, campaign and document stores.
C10_InvalidCreateIdeaAborts ==
    [][(Called("create_idea") /\ ~ValidCreateIdeaArgs(last'.args)) =>
         /\ last'.reply = ReplyTrap
         /\ Canister' = Canister]_vars

\* C10 witness: a create_idea with an empty category has trapped with ideas stored.
C10_Witness ==
    /\ last.op = "create_idea"
    /\ last.args.category = ""
    /\ last.reply = ReplyTrap
    /\ stable_len(IDEAS) > 0

\* C11: upload_doc with an idea_id that is not in the idea store returns absence
\* (not an error and not an abort) and changes nothing: no document is stored,
\* the document counter is not advanced (so the next successful upload gets the
\* id it would have got otherwise), and no idea's doc_ids changes.
C11_UnknownIdeaUploadIsAbsent ==
    [][(Called("upload_doc") /\ ~contains_key(IDEAS, last'.args.idea_id)) =>
         /\ last'.reply = ReplyNone
         /\ DOCS' = DOCS
         /\ DOC_COUNTER' = DOC_COUNTER
         /\ \A i \in DOMAIN IDEAS :
              get_idea_by_id(Canister', i) = get_idea_by_id(Canister, i)
         /\ Canister' = Canister]_vars

\* An upload for an idea that does not exist has been answered, in a canister
\* that holds ideas.
C11_Witness ==
    /\ last.op = "upload_doc"
    /\ ~contains_key(IDEAS, last.args.idea_id)
    /\ last.reply = ReplyNone
    /\ stable_len(IDEAS) >= 2

ReadOps ==
    {"get_idea_by_id", "get_doc", "get_campaign_cards", "get_campaign_cards_by_status",
     "get_campaign_with_idea"}

\* C12: the read operations get_idea_by_id, get_doc, get_campaign_cards,
\* get_campaign_cards_by_status and get_campaign_with_idea leave the idea
\* store, the campaign store, the document store and the counters unchanged;
\* hence two get_idea_by_id(id) calls with no mutating operation between them
\* return identical values.
C12_ReadsChangeNothing ==
    [][/\ (last'.op \in ReadOps) =>
            /\ IDEAS' = IDEAS
            /\ CAMPAIGNS' = CAMPAIGNS
            /\ DOCS' = DOCS
            /\ IDEA_COUNTER' = IDEA_COUNTER
            /\ DOC_COUNTER' = DOC_COUNTER
       /\ (/\ last.op \in ReadOps
           /\ Called("get_idea_by_id")) =>
            last'.reply = ReplyValue(get_idea_by_id(Canister, last'.args.idea_id))
       /\ (/\ last.op = "get_idea_by_id"
           /\ Called("get_idea_by_id")
           /\ last'.args = last.args) =>
            last'.reply = last.reply]_vars

\* A read has returned a stored campaign joined with its idea.
C12_Witness ==
    /\ last.op = "get_campaign_with_idea"
    /\ last.reply.kind = "value"
    /\ last.reply.value.some
    /\ Len(CAMPAIGNS) = MaxCampaigns

\* C13: after a process restart every idea created before the restart is
\* still returned by get_idea_by_id with the same contents (doc_ids
\* included), and the next create_idea returns an id that is not the id of
\* any idea that existed before the restart.
C13_IdeasSurviveRestart ==
    [][/\ Called("restart") =>
            \A i \in 1..issued.idea :
                /\ get_idea_by_id(Canister, i).some
                /\ get_idea_by_id(Canister', i) = get_idea_by_id(Canister, i)
       /\ (Called("create_idea") /\ last'.reply.kind = "id") =>
            /\ last'.reply.id \notin 1..issued.idea
            /\ ~get_idea_by_id(Canister, last'.reply.id).some
            /\ \A i \in 1..issued.idea :
                 get_idea_by_id(Canister', i) = get_idea_by_id(Canister, i)]_vars

\* An idea has been created after a restart (the seeded campaigns are gone)
\* and the ideas from before the restart are still returned.
C13_Witness ==
    /\ last.op = "create_idea"
    /\ last.reply = ReplyId(3)
    /\ Len(CAMPAIGNS) < issued.campaign
    /\ get_idea_by_id(Canister, 1).some
    /\ get_idea_by_id(Canister, 2).some

\* C14: in the write-back step of upload_doc the exclusive borrow of the idea
\* store is never requested while a shared borrow of the same store, taken
\* for the lookup, is still alive: upload_doc on an existing idea never aborts
\* with a borrow conflict and always reaches the point where it returns the
\* new document id.
C14_WriteBackBorrowIsFree ==
    [][(Called("upload_doc") /\ contains_key(IDEAS, last'.args.idea_id)) =>
         /\ borrow_mut_ok(IfLetScrutineeRefs, 0)
         /\ last'.reply # ReplyTrap
         /\ last'.reply = ReplySome(DOC_COUNTER + 1)]_vars

\* C15: after init has run on an empty store at time now, exactly two ideas
\* (ids 1 and 2) and two campaigns (ids 1 and 2) exist; the campaign for idea 1
\* ends 7 days after now and is returned by
\* get_campaign_cards_by_status(Active); the campaign for idea 2 ended 5 days
\* before now and is returned by get_campaign_cards_by_status(Ended) and not
\* by Active.  The readers take end_date as seconds since the epoch.
C15_SeedIsOneActiveOneEnded ==
    (last.op = "init" /\ last.reply = ReplyUnit) =>
        LET now == now_secs(time)
            active == get_campaign_cards_by_status(Canister, "Active", time, overflow_checks)
            ended == get_campaign_cards_by_status(Canister, "Ended", time, overflow_checks)
        IN  /\ DOMAIN IDEAS = {1, 2}
            /\ Len(CAMPAIGNS) = 2
            /\ \A k \in 1..2 : CAMPAIGNS[k].id = k /\ CAMPAIGNS[k].idea_id = k
            /\ CAMPAIGNS[1].end_date = now + 7 * SecsPerDay
            /\ HasCard(active, CAMPAIGNS[1])
            /\ CAMPAIGNS[2].end_date = now - 5 * SecsPerDay
            /\ HasCard(ended, CAMPAIGNS[2])
            /\ ~HasCard(active, CAMPAIGNS[2])

\* q is the quotient of a by b > 0 truncated toward zero: the remainder is
\* smaller than b and has the sign of a.
IsTruncatedQuotient(q, a, b) ==
    LET r == a - q * b
    IN  /\ -b < r /\ r < b
        /\ (a >= 0 => r >= 0)
        /\ (a <= 0 => r <= 0)

\* C16: for every campaign and every current time now (in seconds) the card's
\* days_left is the quotient of end_date - now by 86400 under signed division
\* truncating toward zero (not floor): it is 7 when end_date = now + 7 days,
\* it is 0 for every end_date strictly between now - 86400 and now + 86400,
\* and whenever days_left is negative the end_date is earlier than now.
C16_DaysLeftIsTruncatedQuotient ==
    \A k \in 1..Len(CAMPAIGNS) :
      LET c == CAMPAIGNS[k]
          idea == get_idea(Canister, c.idea_id)
          now == now_secs(time)
      IN  idea.some =>
            LET card == to_card(c, idea.val, time, overflow_checks)
                days_left == card.val.days_left
            IN  /\ ~card.panic
                /\ IsTruncatedQuotient(days_left, c.end_date - now, SecsPerDay)
                /\ c.end_date = now + 7 * SecsPerDay => days_left = 7
                /\ (now - SecsPerDay < c.end_date /\ c.end_date < now + SecsPerDay) =>
                     days_left = 0
                /\ days_left < 0 => c.end_date < now

\* C17: for every unsigned 64-bit end_date that create_campaign accepts and
\* every now, the conversions of end_date and now to signed 64-bit and the
\* subtraction end_date - now in to_card neither overflow nor change the
\* outcome: the campaign is classified Active exactly when end_date >= now as
\* unsigned integers, and days_left is non-negative exactly when
\* end_date - now > -86400.
C17_CastsKeepTheOutcome ==
    \A k \in 1..Len(CAMPAIGNS) :
      LET c == CAMPAIGNS[k]
          idea == get_idea(Canister, c.idea_id)
          now == now_secs(time)
          active == get_campaign_cards_by_status(Canister, "Active", time, overflow_checks)
      IN  idea.some =>
            LET diff == i64_sub(as_i64(c.end_date), as_i64(now), TRUE)
                card == to_card(c, idea.val, time, overflow_checks)
            IN  /\ ~diff.panic
                /\ as_i64(c.end_date) = c.end_date
                /\ as_i64(now) = now
                /\ ~card.panic
                /\ HasCard(active, c) <=> c.end_date >= now
                /\ card.val.days_left >= 0 <=> c.end_date - now > -SecsPerDay

\* C18: each mutating operation changes only what it owns.  A successful
\* create_idea adds one idea and leaves every existing idea, campaign and
\* document unchanged.  A successful create_campaign appends one campaign with
\* amount_raised = 0 and leaves every existing campaign, idea and document
\* unchanged.  A successful upload_doc adds one document and changes only the
\* doc_ids field of the target idea, leaving that idea's other fields
\* (updated_at included), all other ideas and all campaigns unchanged.
C18_MutationsChangeOnlyTheirOwn ==
    [][/\ (Called("create_idea") /\ last'.reply.kind = "id") =>
            /\ last'.reply.id \notin DOMAIN IDEAS
            /\ DOMAIN IDEAS' = DOMAIN IDEAS \cup {last'.reply.id}
            /\ \A i \in DOMAIN IDEAS :
                 get_idea_by_id(Canister', i) = get_idea_by_id(Canister, i)
            /\ CAMPAIGNS' = CAMPAIGNS
            /\ DOCS' = DOCS
       /\ (Called("create_campaign") /\ last'.reply.kind = "Ok") =>
            /\ Len(CAMPAIGNS') = Len(CAMPAIGNS) + 1
            /\ SubSeq(CAMPAIGNS', 1, Len(CAMPAIGNS)) = CAMPAIGNS
            /\ CAMPAIGNS'[Len(CAMPAIGNS')].amount_raised = 0
            /\ IDEAS' = IDEAS
            /\ DOCS' = DOCS
       /\ (Called("upload_doc") /\ last'.reply.kind = "Some") =>
            LET d == last'.reply.id
                target == last'.args.idea_id
            IN  /\ d \notin DOMAIN DOCS
                /\ DOMAIN DOCS' = DOMAIN DOCS \cup {d}
                /\ \A x \in DOMAIN DOCS : DOCS'[x] = DOCS[x]
                /\ DOMAIN IDEAS' = DOMAIN IDEAS
                /\ \A i \in DOMAIN IDEAS \ {target} :
                     get_idea_by_id(Canister', i) = get_idea_by_id(Canister, i)
                /\ [get_idea_by_id(Canister', target).val EXCEPT
                        !.doc_ids = get_idea_by_id(Canister, target).val.doc_ids] =
                     get_idea_by_id(Canister, target).val
                /\ CAMPAIGNS' = CAMPAIGNS]_vars

\* A campaign has been appended to a campaign store that already held one, in
\* a canister with ideas.
C18_Witness ==
    /\ last.op = "create_campaign"
    /\ last.reply.kind = "Ok"
    /\ last.reply.id >= 2
    /\ Len(CAMPAIGNS) = last.reply.id
    /\ stable_len(IDEAS) >= 2

\* C19: in any reachable state and at any single current time, the results of
\* get_campaign_cards_by_status(Active) and get_campaign_cards_by_status(Ended)
\* partition the result of get_campaign_cards: every card appears in exactly
\* one of the two filtered results.
C19_ActiveAndEndedPartitionCards ==
    LET all == get_campaign_cards(Canister, time, overflow_checks)
        active == get_campaign_cards_by_status(Canister, "Active", time, overflow_checks)
        ended == get_campaign_cards_by_status(Canister, "Ended", time, overflow_checks)
    IN  /\ active.trap = all.trap
        /\ ended.trap = all.trap
        /\ ~all.trap =>
             /\ \A j \in 1..Len(all.cards) :
                  (all.cards[j] \in SeqRange(active.cards)) #
                  (all.cards[j] \in SeqRange(ended.cards))
             /\ SeqRange(active.cards) \cup SeqRange(ended.cards) \subseteq
                  SeqRange(all.cards)
             /\ Len(active.cards) + Len(ended.cards) = Len(all.cards)

\* The campaign store holds an Active and an Ended campaign.
C19_Witness ==
    LET all == get_campaign_cards(Canister, time, overflow_checks)
        active == get_campaign_cards_by_status(Canister, "Active", time, overflow_checks)
        ended == get_campaign_cards_by_status(Canister, "Ended", time, overflow_checks)
    IN  /\ ~all.trap
        /\ Len(active.cards) >= 1
        /\ Len(ended.cards) >= 1
        /\ Len(all.cards) = Len(CAMPAIGNS)

\* The days_left of campaign c's card in the cards r.
DaysLeftOf(r, c) ==
    r.cards[CHOOSE j \in 1..Len(r.cards) : r.cards[j].id = c.id].days_left

\* C20: the clock never goes back and a stored campaign is never mutated or
\* deleted, so classification is monotone over time: once
\* get_campaign_cards_by_status(Ended) has returned a stored campaign, every
\* later Ended call returns it and no later Active call returns it, and its
\* days_left never increases between successive reads.
C20_EndedStaysEnded ==
    [][/\ time' >= time
       /\ \A k \in 1..Len(CAMPAIGNS) :
            LET c == CAMPAIGNS[k]
                all == get_campaign_cards(Canister, time, overflow_checks)
                ended == get_campaign_cards_by_status(Canister, "Ended", time,
                                                      overflow_checks)
                all_next == get_campaign_cards(Canister', time', overflow_checks)
                ended_next == get_campaign_cards_by_status(Canister', "Ended", time',
                                                           overflow_checks)
                active_next == get_campaign_cards_by_status(Canister', "Active", time',
                                                            overflow_checks)
            IN  (k <= Len(CAMPAIGNS') /\ CAMPAIGNS'[k] = c) =>
                  /\ HasCard(ended, c) =>
                       HasCard(ended_next, c) /\ ~HasCard(active_next, c)
                  /\ (HasCard(all, c) /\ HasCard(all_next, c)) =>
                       DaysLeftOf(all_next, c) <= DaysLeftOf(all, c)]_vars

====
